---- MODULE Spec2Model ----
(***************************************************************************)
(* Web/Routes/Api/ProductRouter.js: the Product route table of the server. *)
(* Every route is an express pipeline [UserAuth, validation chains...,     *)
(* controller handler]; the validation chains are express-validator        *)
(* chains built with check() and body().                                   *)
(*                                                                         *)
(* JSON values are records tagged by their JavaScript type; a string is    *)
(* the sequence of its characters, so that isNumeric, isBoolean, isEmpty   *)
(* and .length are computed on the characters.                             *)
(***************************************************************************)
EXTENDS Integers, Sequences, FiniteSets

VARIABLES routes, req, pc, route, stage, errors, threw, ran, invoked, response

vars == <<routes, req, pc, route, stage, errors, threw, ran, invoked, response>>

(* ---------------------------------------------------------------- bounds *)

\* longest images array a request of the model carries
MaxImages == 3

(* ----------------------------------------------------------- JSON values *)

Undefined == [t |-> "undefined"]
Null == [t |-> "null"]
StrV(s) == [t |-> "string", s |-> s]
\* a number, with the characters String(n) gives it
NumV(s) == [t |-> "number", s |-> s]
BoolV(b) == [t |-> "boolean", b |-> b]
ArrV(a) == [t |-> "array", a |-> a]

Digits == {"0", "1", "2", "3", "4", "5", "6", "7", "8", "9"}

(* ------------------------------------------- express-validator predicates *)

\* utils toString(): the string a standard validator is run on
ToString(v) ==
    CASE v.t = "undefined" -> <<>>
      [] v.t = "null" -> <<>>
      [] v.t = "string" -> v.s
      [] v.t = "number" -> v.s
      [] v.t = "boolean" -> IF v.b THEN <<"t", "r", "u", "e">>
                                   ELSE <<"f", "a", "l", "s", "e">>

AllDigits(s) == \A i \in 1..Len(s) : s[i] \in Digits

\* .isEmpty(): the string has no character
IsEmpty(s) == Len(s) = 0

\* a pattern that lets the digits after the point be missing: [0-9]* for [0-9]+
IsNumericLoose(s) ==
    LET u == IF Len(s) > 0 /\ s[1] \in {"+", "-"} THEN Tail(s) ELSE s
    IN  \/ AllDigits(u)
        \/ \E d \in 1..Len(u) :
              /\ u[d] = "."
              /\ AllDigits(SubSeq(u, 1, d - 1))
              /\ AllDigits(SubSeq(u, d + 1, Len(u)))

\* a pattern without the sign: /^([0-9]*[.])?[0-9]+$/
IsNumericUnsigned(s) ==
    \/ Len(s) > 0 /\ AllDigits(s)
    \/ \E d \in 1..(Len(s) - 1) :
          /\ s[d] = "."
          /\ AllDigits(SubSeq(s, 1, d - 1))
          /\ AllDigits(SubSeq(s, d + 1, Len(s)))

\* .isNumeric(): /^[+-]?([0-9]*[.])?[0-9]+$/
IsNumeric(s) ==
    LET u == IF Len(s) > 0 /\ s[1] \in {"+", "-"} THEN Tail(s) ELSE s
    IN  \/ Len(u) > 0 /\ AllDigits(u)
        \/ \E d \in 1..(Len(u) - 1) :
              /\ u[d] = "."
              /\ AllDigits(SubSeq(u, 1, d - 1))
              /\ AllDigits(SubSeq(u, d + 1, Len(u)))

\* .isBoolean(): one of 'true', 'false', '1', '0'
IsBoolean(s) ==
    s \in {<<"t", "r", "u", "e">>, <<"f", "a", "l", "s", "e">>, <<"1">>, <<"0">>}

\* images must hold at least this many entries
MinImages == 3

ImagesMessage == "Each product should have at least 3 images"

\* value.length of the custom validator: a property read on undefined or null
\* throws a TypeError; a number or boolean has no length (undefined)
LengthOf(v) ==
    CASE v.t \in {"undefined", "null"} -> [throws |-> TRUE]
      [] v.t = "string" -> [throws |-> FALSE, defined |-> TRUE, n |-> Len(v.s)]
      [] v.t = "array" -> [throws |-> FALSE, defined |-> TRUE, n |-> Len(v.a)]
      [] OTHER -> [throws |-> FALSE, defined |-> FALSE]

\* the message of the TypeError a property read on undefined or null throws
TypeErrorMessage(v) ==
    IF v.t = "null" THEN "Cannot read properties of null (reading 'length')"
    ELSE "Cannot read properties of undefined (reading 'length')"

\* the callback with the comparison off by one: value.length < 2
ImagesCustomOffByOne(v) ==
    LET l == LengthOf(v)
    IN  IF l.throws THEN [ok |-> FALSE, typeError |-> TRUE, msg |-> TypeErrorMessage(v)]
        ELSE IF l.defined /\ l.n < MinImages - 1
             THEN [ok |-> FALSE, typeError |-> FALSE, msg |-> ImagesMessage]
             ELSE [ok |-> TRUE, typeError |-> FALSE, msg |-> ""]

\* (value, { req }) => { if (value.length < 3) throw new Error(...); return true }
\* the outcome of the callback: it returns true, throws its own Error, or
\* throws the TypeError of value.length.  undefined < 3 is false.
ImagesCustom(v) ==
    LET l == LengthOf(v)
    IN  IF l.throws THEN [ok |-> FALSE, typeError |-> TRUE, msg |-> TypeErrorMessage(v)]
        ELSE IF l.defined /\ l.n < MinImages
             THEN [ok |-> FALSE, typeError |-> FALSE, msg |-> ImagesMessage]
             ELSE [ok |-> TRUE, typeError |-> FALSE, msg |-> ""]

(* ------------------------------------------------------ validation chains *)

\* check(field, message).not().isEmpty()
NotEmptyChain(field, message) ==
    [field |-> field, locations |-> <<"body", "query">>, kind |-> "notEmpty", message |-> message]

\* check(field, message).isNumeric()
NumericChain(field, message) ==
    [field |-> field, locations |-> <<"body", "query">>, kind |-> "isNumeric", message |-> message]

\* check(field, message).isBoolean()
BooleanChain(field, message) ==
    [field |-> field, locations |-> <<"body", "query">>, kind |-> "isBoolean", message |-> message]

\* body('images').custom(...)
ImagesChain ==
    [field |-> "images", locations |-> <<"body">>, kind |-> "custom", message |-> ""]

\* the rule with the field name misspelt
ProductIdRuleMisspelt == NotEmptyChain("productID", "Product id is required")

\* check('productId', 'Product id is required').not().isEmpty()
ProductIdRule == NotEmptyChain("productId", "Product id is required")

\* the eight chains of POST /AddProduct, in declaration order
AddProductValidators ==
    << NotEmptyChain("productName", "Product name is required"),
       NumericChain("price", "Price should be a number"),
       BooleanChain("forExchange", "ForExchange should be boolean"),
       NotEmptyChain("description", "Description is required"),
       NotEmptyChain("categoryId", "Category should be a number"),
       NotEmptyChain("cityId", "City should be a number"),
       NotEmptyChain("conditionId", "Condition should be a number"),
       ImagesChain >>

\* the nine chains of PUT /EditProduct, in declaration order
EditProductValidators ==
    << ProductIdRule,
       NotEmptyChain("productName", "Product name is required"),
       NumericChain("price", "Price should be a number"),
       BooleanChain("forExchange", "ForExchange should be boolean"),
       NotEmptyChain("description", "Description is required"),
       NotEmptyChain("categoryId", "Category should be a number"),
       NotEmptyChain("cityId", "City should be a number"),
       NotEmptyChain("conditionId", "Condition should be a number"),
       ImagesChain >>

LikeProductValidators == << ProductIdRule >>
AddProductToCartValidators == << ProductIdRule >>
DeleteProductValidators == << ProductIdRule >>

(* ------------------------------------------------------------ route table *)

Route(method, path, validators, handler) ==
    [method |-> method, path |-> path, validators |-> validators, handler |-> handler]

\* the table with AddProductToCart bound to the handler of the route above it
ProductRouterCartLikes ==
    << Route("POST", "/AddProduct", AddProductValidators, "AddProduct"),
       Route("PATCH", "/LikeProduct", LikeProductValidators, "LikeProduct"),
       Route("PATCH", "/AddProductToCart", AddProductToCartValidators, "LikeProduct"),
       Route("GET", "/GetProductById", << >>, "GetProductById"),
       Route("GET", "/GetSellingProducts", << >>, "GetSellingProducts"),
       Route("GET", "/GetExchangeProducts", << >>, "GetExchangeProducts"),
       Route("PUT", "/EditProduct", EditProductValidators, "EditProduct"),
       Route("DELETE", "/DeleteProduct", DeleteProductValidators, "DeleteProduct") >>

\* the table with a productId rule on GET /GetProductById
ProductRouterGetValidated ==
    << Route("POST", "/AddProduct", AddProductValidators, "AddProduct"),
       Route("PATCH", "/LikeProduct", LikeProductValidators, "LikeProduct"),
       Route("PATCH", "/AddProductToCart", AddProductToCartValidators, "AddProductToCart"),
       Route("GET", "/GetProductById", << ProductIdRule >>, "GetProductById"),
       Route("GET", "/GetSellingProducts", << >>, "GetSellingProducts"),
       Route("GET", "/GetExchangeProducts", << >>, "GetExchangeProducts"),
       Route("PUT", "/EditProduct", EditProductValidators, "EditProduct"),
       Route("DELETE", "/DeleteProduct", DeleteProductValidators, "DeleteProduct") >>

\* the routes in registration order
ProductRouter ==
    << Route("POST", "/AddProduct", AddProductValidators, "AddProduct"),
       Route("PATCH", "/LikeProduct", LikeProductValidators, "LikeProduct"),
       Route("PATCH", "/AddProductToCart", AddProductToCartValidators, "AddProductToCart"),
       Route("GET", "/GetProductById", << >>, "GetProductById"),
       Route("GET", "/GetSellingProducts", << >>, "GetSellingProducts"),
       Route("GET", "/GetExchangeProducts", << >>, "GetExchangeProducts"),
       Route("PUT", "/EditProduct", EditProductValidators, "EditProduct"),
       Route("DELETE", "/DeleteProduct", DeleteProductValidators, "DeleteProduct") >>

AuthStage == [kind |-> "auth", name |-> "UserAuth"]
CheckStage(chain) == [kind |-> "check", name |-> chain.field, chain |-> chain]
HandlerStage(name) == [kind |-> "handler", name |-> name]

\* the chains registered before UserAuth
PipelineAuthLast(r) ==
    [i \in 1..Len(r.validators) |-> CheckStage(r.validators[i])]
      \o <<AuthStage>>
      \o <<HandlerStage(r.handler)>>

\* the chains registered in the opposite order
PipelineChainsReversed(r) ==
    <<AuthStage>>
      \o [i \in 1..Len(r.validators) |-> CheckStage(r.validators[Len(r.validators) + 1 - i])]
      \o <<HandlerStage(r.handler)>>

\* the middleware of a route as express flattens it: UserAuth, the chains, the handler
Pipeline(r) ==
    <<AuthStage>>
      \o [i \in 1..Len(r.validators) |-> CheckStage(r.validators[i])]
      \o <<HandlerStage(r.handler)>>

(* ------------------------------------------------------ chain evaluation *)

\* obj[field], undefined when the object has no such property
Lookup(obj, field) == IF field \in DOMAIN obj THEN obj[field] ELSE Undefined

\* the field instances a chain validates: one per location that defines the
\* field, and the first location's (undefined) instance when none does
Instances(chain, r) ==
    LET all == [i \in 1..Len(chain.locations) |->
                   [location |-> chain.locations[i],
                    value |-> Lookup(r[chain.locations[i]], chain.field)]]
        withValue == SelectSeq(all, LAMBDA x : x.value # Undefined)
    IN  IF Len(withValue) > 0 THEN withValue ELSE <<all[1]>>

\* the verdict of a chain's validator on one value: passed, the message of a
\* failure, and whether the predicate threw a TypeError
Verdict(chain, v) ==
    CASE chain.kind = "notEmpty" ->
            [ok |-> ~IsEmpty(ToString(v)), typeError |-> FALSE, msg |-> chain.message]
      [] chain.kind = "isNumeric" ->
            [ok |-> IsNumeric(ToString(v)), typeError |-> FALSE, msg |-> chain.message]
      [] chain.kind = "isBoolean" ->
            [ok |-> IsBoolean(ToString(v)), typeError |-> FALSE, msg |-> chain.message]
      [] chain.kind = "custom" -> ImagesCustom(v)

\* the errors a chain records on the request, one per failing instance
ChainErrors(chain, r) ==
    LET inst == Instances(chain, r)
        failing == SelectSeq(inst, LAMBDA x : ~Verdict(chain, x.value).ok)
    IN  [i \in 1..Len(failing) |->
            [field |-> chain.field,
             location |-> failing[i].location,
             msg |-> Verdict(chain, failing[i].value).msg]]

\* whether the chain's predicate throws a TypeError on some instance
ChainThrows(chain, r) ==
    LET inst == Instances(chain, r)
    IN  \E i \in 1..Len(inst) : Verdict(chain, inst[i].value).typeError

(* --------------------------------------------------------------- requests *)

Bike == <<"B", "i", "k", "e">>
Abc == <<"a", "b", "c">>
Hundred == <<"1", "0", "0">>
Decimal == <<"-", "1", ".", "5">>
NotABool == <<"n", "o", "t", "a", "b", "o", "o", "l">>
False == <<"f", "a", "l", "s", "e">>
One == <<"1">>
AJpg == <<"a", ".", "j", "p", "g">>

Tokens == {"absent", "invalid", "valid"}

TextKinds == {Undefined, StrV(<<>>), StrV(Bike)}
PriceKinds == {Undefined, StrV(Abc), StrV(Hundred), StrV(Decimal)}
ForExchangeKinds == {Undefined, StrV(NotABool), StrV(False), BoolV(TRUE)}
IdKinds == {Undefined, StrV(One)}
ImagesKinds ==
    {Undefined, Null, StrV(<<"a", "b">>), NumV(<<"5">>)}
      \cup {ArrV([i \in 1..n |-> StrV(AJpg)]) : n \in 0..MaxImages}

\* a body without any of the product fields
EmptyBody ==
    [productId |-> Undefined, productName |-> Undefined, price |-> Undefined,
     forExchange |-> Undefined, description |-> Undefined, categoryId |-> Undefined,
     cityId |-> Undefined, conditionId |-> Undefined, images |-> Undefined]

\* bodies sent to POST /AddProduct
ProductBodies ==
    [productId : {Undefined}, productName : TextKinds, price : PriceKinds,
     forExchange : ForExchangeKinds, description : {StrV(<<>>), StrV(Bike)},
     categoryId : IdKinds, cityId : IdKinds, conditionId : IdKinds,
     images : ImagesKinds]

\* bodies sent to PUT /EditProduct
EditBodies ==
    [productId : {Undefined, StrV(<<>>), StrV(One)},
     productName : {StrV(<<>>), StrV(Bike)}, price : PriceKinds,
     forExchange : ForExchangeKinds, description : {StrV(<<>>), StrV(Bike)},
     categoryId : IdKinds, cityId : {StrV(One)}, conditionId : IdKinds,
     images : ImagesKinds]

ProductIdBodies ==
    {[EmptyBody EXCEPT !.productId = v] : v \in {Undefined, Null, StrV(<<>>), StrV(One)}}

EmptyQuery == [productId |-> Undefined, limit |-> Undefined, skip |-> Undefined]

ProductIdQueries ==
    {[EmptyQuery EXCEPT !.productId = v] : v \in {Undefined, StrV(<<>>), StrV(One)}}

\* the query of an EditProduct request: none, or an empty productId parameter
EditQueries == {q \in ProductIdQueries : q.productId # StrV(One)}

ListQueries ==
    [productId : {Undefined, StrV(One)},
     limit : {Undefined, StrV(Abc), StrV(Hundred)},
     skip : {Undefined, StrV(Abc), StrV(One)}]

ProductIdLines ==
    {<<"PATCH", "/LikeProduct">>, <<"PATCH", "/AddProductToCart">>,
     <<"DELETE", "/DeleteProduct">>}

GetLines ==
    {<<"GET", "/GetProductById">>, <<"GET", "/GetSellingProducts">>,
     <<"GET", "/GetExchangeProducts">>}

\* request lines that no route registers
UnregisteredLines ==
    {<<"GET", "/AddProduct">>, <<"POST", "/LikeProduct">>, <<"DELETE", "/Unknown">>}

Request(line, token, b, q) ==
    [method |-> line[1], path |-> line[2], token |-> token, body |-> b, query |-> q]

NoRequest == [method |-> "", path |-> "", token |-> "absent", body |-> EmptyBody, query |-> EmptyQuery]

(* ------------------------------------------------------------------ state *)

Init ==
    /\ routes = ProductRouter
    /\ req = NoRequest
    /\ pc = "idle"
    /\ route = 0
    /\ stage = 0
    /\ errors = << >>
    /\ threw = {}
    /\ ran = << >>
    /\ invoked = << >>
    /\ response = "none"

\* the routes of the table a request line matches, in registration order
Matching(r) ==
    SelectSeq([i \in 1..Len(routes) |-> i],
              LAMBDA i : routes[i].method = r.method /\ routes[i].path = r.path)

\* express hands the request to the first matching route; no match leaves
\* the router without a response of its own (404 of the application)
Dispatch(r) ==
    /\ req' = r
    /\ IF Len(Matching(r)) = 0
       THEN /\ pc' = "done"
            /\ response' = "notfound"
            /\ route' = 0
            /\ stage' = 0
       ELSE /\ pc' = "run"
            /\ response' = "none"
            /\ route' = Matching(r)[1]
            /\ stage' = 1
    /\ UNCHANGED <<routes, errors, threw, ran, invoked>>

CurrentStage == Pipeline(routes[route])[stage]

\* UserAuth accepts the request on a valid x-auth-token and calls next();
\* otherwise it answers unauthorized and the pipeline halts
TokenAccepted(r) == r.token = "valid"

UserAuth ==
    /\ pc = "run"
    /\ CurrentStage.kind = "auth"
    /\ ran' = Append(ran, CurrentStage.name)
    /\ IF TokenAccepted(req)
       THEN /\ stage' = stage + 1
            /\ UNCHANGED <<pc, response>>
       ELSE /\ pc' = "done"
            /\ response' = "unauthorized"
            /\ UNCHANGED stage
    /\ UNCHANGED <<routes, req, route, errors, threw, invoked>>

\* a chain that stops at the first error: it records nothing once the
\* request carries an error
RunChainBail ==
    /\ pc = "run"
    /\ CurrentStage.kind = "check"
    /\ ran' = Append(ran, CurrentStage.name)
    /\ errors' = IF errors # << >> THEN errors
                 ELSE errors \o ChainErrors(CurrentStage.chain, req)
    /\ threw' = IF ChainThrows(CurrentStage.chain, req)
                THEN threw \cup {CurrentStage.name} ELSE threw
    /\ stage' = stage + 1
    /\ UNCHANGED <<routes, req, pc, route, invoked, response>>

\* a validation chain as middleware: it runs its validator on the field,
\* records the errors on the request and always calls next()
RunChain ==
    /\ pc = "run"
    /\ CurrentStage.kind = "check"
    /\ ran' = Append(ran, CurrentStage.name)
    /\ errors' = errors \o ChainErrors(CurrentStage.chain, req)
    /\ threw' = IF ChainThrows(CurrentStage.chain, req)
                THEN threw \cup {CurrentStage.name} ELSE threw
    /\ stage' = stage + 1
    /\ UNCHANGED <<routes, req, pc, route, invoked, response>>

\* the controller function that ends the route: it receives the request as
\* the pipeline left it and answers it
Handler ==
    /\ pc = "run"
    /\ CurrentStage.kind = "handler"
    /\ ran' = Append(ran, CurrentStage.name)
    /\ invoked' = Append(invoked, [handler |-> CurrentStage.name, body |-> req.body,
                                   errors |-> errors])
    /\ response' = "handled"
    /\ pc' = "done"
    /\ UNCHANGED <<routes, req, route, stage, errors, threw>>

\* the request is over; the next one starts from a fresh request object
Complete ==
    /\ pc = "done"
    /\ req' = NoRequest
    /\ pc' = "idle"
    /\ route' = 0
    /\ stage' = 0
    /\ errors' = << >>
    /\ threw' = {}
    /\ ran' = << >>
    /\ invoked' = << >>
    /\ response' = "none"
    /\ UNCHANGED routes

\* the requests that arrive, by the route they are sent to
Arrive ==
    /\ pc = "idle"
    /\ \/ \E k \in Tokens, b \in ProductBodies :
             Dispatch(Request(<<"POST", "/AddProduct">>, k, b, EmptyQuery))
       \/ \E k \in Tokens, b \in EditBodies, q \in EditQueries :
             Dispatch(Request(<<"PUT", "/EditProduct">>, k, b, q))
       \/ \E l \in ProductIdLines, k \in Tokens, b \in ProductIdBodies, q \in ProductIdQueries :
             Dispatch(Request(l, k, b, q))
       \/ \E l \in GetLines, k \in Tokens, q \in ListQueries :
             Dispatch(Request(l, k, EmptyBody, q))
       \/ \E l \in UnregisteredLines, k \in Tokens, b \in ProductIdBodies :
             Dispatch(Request(l, k, b, EmptyQuery))

Next ==
    \/ Arrive
    \/ UserAuth
    \/ RunChain
    \/ Handler
    \/ Complete

Spec == Init /\ [][Next]_vars

\* a sample of the bodies above, sent to every request line
SampleBodies ==
    [productId : {Undefined, StrV(One)}, productName : {StrV(<<>>), StrV(Bike)},
     price : {StrV(Abc), StrV(Hundred)}, forExchange : {StrV(False)},
     description : {StrV(Bike)}, categoryId : {StrV(One)}, cityId : {StrV(One)},
     conditionId : {Undefined}, images : ImagesKinds]

RegisteredLines ==
    {<<"POST", "/AddProduct">>, <<"PUT", "/EditProduct">>} \cup ProductIdLines \cup GetLines

ArriveSample ==
    /\ pc = "idle"
    /\ \E l \in RegisteredLines \cup UnregisteredLines, k \in Tokens,
          b \in SampleBodies, q \in EditQueries :
             Dispatch(Request(l, k, b, q))

NextSample ==
    \/ ArriveSample
    \/ UserAuth
    \/ RunChain
    \/ Handler
    \/ Complete

\* express calls each stage of a request in flight as soon as the stage
\* before it calls next(): no stage that can run is left waiting for ever
FairSpec ==
    /\ Init
    /\ [][NextSample]_vars
    /\ WF_vars(UserAuth)
    /\ WF_vars(RunChain)
    /\ WF_vars(Handler)

TypeOK ==
    /\ pc \in {"idle", "run", "done"}
    /\ response \in {"none", "notfound", "unauthorized", "handled"}
    /\ route \in 0..Len(routes)

(* ----------------------------------------------------------------- claims *)

OnLine(method, path) == req.method = method /\ req.path = path

ToAddOrEdit == OnLine("POST", "/AddProduct") \/ OnLine("PUT", "/EditProduct")

ToProductIdRoute ==
    \/ OnLine("PATCH", "/LikeProduct")
    \/ OnLine("PATCH", "/AddProductToCart")
    \/ OnLine("DELETE", "/DeleteProduct")

ToGetRoute ==
    \/ OnLine("GET", "/GetProductById")
    \/ OnLine("GET", "/GetSellingProducts")
    \/ OnLine("GET", "/GetExchangeProducts")

\* the request matched a route and carries a token UserAuth accepts
Authenticated == route # 0 /\ req.token = "valid"

HasError(es, field, msg) == \E i \in 1..Len(es) : es[i].field = field /\ es[i].msg = msg

ErrorsOn(es, field) == Cardinality({i \in 1..Len(es) : es[i].field = field})

\* the route's handler was invoked once, and no other
InvokedOnce == Len(invoked) = 1 /\ invoked[1].handler = routes[route].handler

\* C1: on every registered route, a request UserAuth rejects has no chain
\* evaluated and no handler invoked, and it ends with the unauthorized response.
C1_AuthRejectionHalts ==
    (route # 0 /\ req.token # "valid") =>
        /\ \A i \in 1..Len(ran) : ran[i] = "UserAuth"
        /\ errors = << >>
        /\ invoked = << >>
        /\ pc = "done" => response = "unauthorized"

C1_Witness ==
    /\ pc = "done"
    /\ OnLine("PUT", "/EditProduct")
    /\ req.token = "absent"
    /\ req.body.images = Undefined
    /\ response = "unauthorized"

FewImages == req.body.images.t = "array" /\ Len(req.body.images.a) < 3

NoProductId ==
    /\ req.body.productId \in {Undefined, Null, StrV(<<>>)}
    /\ req.query.productId \in {Undefined, StrV(<<>>)}

PriceNotNumeric == req.body.price \in {Undefined, StrV(Abc)}

ForExchangeNotBoolean == req.body.forExchange \in {Undefined, StrV(NotABool)}

ValidProduct(b) ==
    /\ b.productName = StrV(Bike)
    /\ b.price \in {StrV(Hundred), StrV(Decimal)}
    /\ b.forExchange \in {StrV(False), BoolV(TRUE)}
    /\ b.description = StrV(Bike)
    /\ b.categoryId = StrV(One)
    /\ b.cityId = StrV(One)
    /\ b.conditionId = StrV(One)
    /\ b.images.t = "array" /\ Len(b.images.a) >= 3

\* C5: an authenticated POST /AddProduct whose body satisfies the eight rules
\* gets no validation error, and the AddProduct handler is invoked exactly
\* once with the body the request arrived with.
C5_ValidAddProductReachesHandler ==
    /\ [](  (OnLine("POST", "/AddProduct") /\ Authenticated /\ ValidProduct(req.body))
            => /\ errors = << >>
               /\ Len(invoked) <= 1
               /\ pc = "done" =>
                     /\ Len(invoked) = 1
                     /\ invoked[1].handler = "AddProduct"
                     /\ invoked[1].body = req.body
                     /\ invoked[1].errors = << >>
                     /\ response = "handled" )
    /\ [][pc = "run" => req' = req]_vars

C5_Witness ==
    /\ pc = "done"
    /\ OnLine("POST", "/AddProduct")
    /\ Authenticated
    /\ ValidProduct(req.body)
    /\ req.body.price = StrV(Decimal)
    /\ Len(invoked) = 1

\* the table the claim lists
ExpectedTable ==
    { <<"POST", "/AddProduct", "AddProduct">>,
      <<"PATCH", "/LikeProduct", "LikeProduct">>,
      <<"PATCH", "/AddProductToCart", "AddProductToCart">>,
      <<"GET", "/GetProductById", "GetProductById">>,
      <<"GET", "/GetSellingProducts", "GetSellingProducts">>,
      <<"GET", "/GetExchangeProducts", "GetExchangeProducts">>,
      <<"PUT", "/EditProduct", "EditProduct">>,
      <<"DELETE", "/DeleteProduct", "DeleteProduct">> }

\* C6: the table holds exactly eight pairwise distinct (method, path) pairs
\* and never changes; a request matches at most one route, and the only
\* handler invoked for it is the one the claim lists for its (method, path).
C6_RouteTableFixed ==
    /\ Len(routes) = 8
    /\ Cardinality({<<routes[i].method, routes[i].path>> : i \in 1..Len(routes)}) = 8
    /\ {<<routes[i].method, routes[i].path, routes[i].handler>> : i \in 1..Len(routes)}
          = ExpectedTable
    /\ pc # "idle" =>
          /\ Len(Matching(req)) <= 1
          /\ route = 0 => invoked = << >>
          /\ \A i \in 1..Len(invoked) :
                <<req.method, req.path, invoked[i].handler>> \in ExpectedTable

C6_Witness ==
    /\ pc = "done"
    /\ OnLine("PATCH", "/AddProductToCart")
    /\ Len(invoked) = 1
    /\ invoked[1].handler = "AddProductToCart"

\* C7: on the three GET routes no rule is declared: an authenticated request
\* has no chain evaluated and no error recorded whatever its query holds, and
\* it ends in the route's handler.
C7_GetRoutesUnvalidated ==
    (ToGetRoute /\ Authenticated) =>
        /\ errors = << >>
        /\ \A i \in 1..Len(ran) : ran[i] \in {"UserAuth", routes[route].handler}
        /\ pc = "done" => response = "handled" /\ InvokedOnce /\ invoked[1].errors = << >>

C7_Witness ==
    /\ pc = "done"
    /\ OnLine("GET", "/GetSellingProducts")
    /\ Authenticated
    /\ req.query.limit = StrV(Abc)
    /\ req.query.skip = Undefined
    /\ response = "handled"

\* C8 as stated: no rule's predicate throws on a well-formed body; the images
\* rule evaluates without a TypeError when images is absent, null or no array.
C8_PredicatesNeverThrow == threw = {}

\* the stage names of a route in the order the source declares them
DeclaredOrder(r) ==
    <<"UserAuth">> \o [i \in 1..Len(r.validators) |-> r.validators[i].field] \o <<r.handler>>

\* C9: a request to a registered route runs UserAuth, then the chains in
\* declared order, then the handler, each at most once; it leaves that line
\* only when UserAuth rejects it; and it ends in exactly one outcome:
\* unauthorized, validation error, or handler invoked.
C9_LinearPipeline ==
    /\ [](  route # 0 =>
            /\ Len(ran) <= Len(DeclaredOrder(routes[route]))
            /\ ran = SubSeq(DeclaredOrder(routes[route]), 1, Len(ran))
            /\ pc = "run" => Len(ran) = stage - 1
            /\ pc = "done" =>
                  \/ /\ response = "unauthorized"
                     /\ ran = <<"UserAuth">>
                     /\ invoked = << >>
                  \/ /\ response = "validation-error"
                     /\ invoked = << >>
                  \/ /\ response = "handled"
                     /\ ran = DeclaredOrder(routes[route])
                     /\ InvokedOnce )
    /\ (pc = "run") ~> (pc = "done" /\ response \in {"unauthorized", "validation-error", "handled"})

C9_Witness ==
    /\ pc = "done"
    /\ OnLine("PUT", "/EditProduct")
    /\ Authenticated
    /\ Len(ran) = 11
    /\ Len(errors) > 2
    /\ response = "handled"

\* the chains of the matched route have all run
ChainsDone == route # 0 /\ Len(ran) > Len(routes[route].validators)

\* the rule at index j of the matched route fails on the request
RuleFails(j) == ChainErrors(routes[route].validators[j], req) # << >>

\* the (only) index of the rule of a field in the matched route
RuleIndex(field) ==
    CHOOSE j \in 1..Len(routes[route].validators) : routes[route].validators[j].field = field

\* the errors follow the declaration order of their rules
InDeclarationOrder ==
    \A a, b \in 1..Len(errors) :
        a < b => RuleIndex(errors[a].field) <= RuleIndex(errors[b].field)

\* C10 as stated: after the last chain of AddProduct / EditProduct the request
\* carries exactly one error for each failing rule, in declaration order.
C10_Original ==
    (ToAddOrEdit /\ Authenticated /\ ChainsDone) =>
        /\ \A j \in 1..Len(routes[route].validators) :
              ErrorsOn(errors, routes[route].validators[j].field)
                 = IF RuleFails(j) THEN 1 ELSE 0
        /\ InDeclarationOrder

\* C10 amended: after the last chain the request carries, for each failing
\* rule, one error per failing instance of its field (body and query each
\* hold an instance of a check() field they define), none for a passing rule,
\* and the errors follow the declaration order of their rules: an earlier
\* failure hides no later one.
C10_CollectAll ==
    (ToAddOrEdit /\ Authenticated /\ ChainsDone) =>
        /\ \A j \in 1..Len(routes[route].validators) :
              /\ ErrorsOn(errors, routes[route].validators[j].field)
                    = Len(ChainErrors(routes[route].validators[j], req))
              /\ RuleFails(j) => ErrorsOn(errors, routes[route].validators[j].field) >= 1
        /\ InDeclarationOrder

C10_Witness ==
    /\ pc = "done"
    /\ OnLine("POST", "/AddProduct")
    /\ Authenticated
    /\ Len(errors) = 8
    /\ errors[1].field = "productName"
    /\ errors[8].field = "images"

====
